---- MODULE Spec2Model ----
(***************************************************************************)
(* Model of the cross-stitch solver's geometry / sequencing / symbolic     *)
(* arithmetic engine (src/src/stitch.rs, src/src/grid_cell.rs,             *)
(* src/src/symbolic_sum.rs).                                               *)
(*                                                                         *)
(* The segment overlap tree of src/src/line_segment.rs and                 *)
(* src/src/line_segment_tree.rs is part of it.                             *)
(*                                                                         *)
(* Six state machines share the module:                                    *)
(*   SpecStitch   the draw pipeline of grid.rs: the selected cells and the *)
(*                two configured corners are converted to half-stitches,   *)
(*                which are then validated and costed in either mode;      *)
(*   SpecSum      a SymbolicSum that accumulates add_distance calls;       *)
(*   SpecDistance one call of euclidean_distance_squared on machine        *)
(*                integers;                                                *)
(*   SpecOverlap  one call of LineSegment::overlaps;                       *)
(*   SpecTree     a LineSegmentTree under add_child calls;                 *)
(*   SpecCentre   one call of re_centre_stitches.                          *)
(***************************************************************************)
EXTENDS Integers, Sequences, FiniteSets, TLC

VARIABLES
    selected_cells,            \* grid.rs: program_state.selected_cells
    first_stitch_direction,    \* convert_grid_cells argument
    second_stitch_direction,   \* convert_grid_cells argument
    stitches,                  \* Vec<HalfStitch> built by convert_grid_cells
    float_result,              \* Result of check_valid_sequence_float
    symbolic_result,           \* Result of check_valid_sequence_symbolic
    pc,                        \* position in the draw pipeline
    sum,                       \* SymbolicSum {constant, square_root_terms}
    calls,                     \* number of add_distance calls so far
    cell_a,                    \* self of euclidean_distance_squared
    cell_b,                    \* other of euclidean_distance_squared
    overflow_checks,           \* whether the build checks + and - for overflow
    distance_result,           \* what euclidean_distance_squared did
    seg_s,                     \* self of LineSegment::overlaps
    seg_t,                     \* other of LineSegment::overlaps
    overlap_result,            \* what overlaps returned
    root_nodes,                \* LineSegmentTree.root_nodes
    lines,                     \* the segments given to add_child so far
    search_impl,               \* the build's slice::binary_search_by
    centre_input,              \* the stitches given to re_centre_stitches
    centred                    \* what re_centre_stitches did

stitchVars == <<selected_cells, first_stitch_direction, second_stitch_direction,
                stitches, float_result, symbolic_result, pc>>
sumVars == <<sum, calls>>
distVars == <<cell_a, cell_b, overflow_checks, distance_result>>
segVars == <<seg_s, seg_t, overlap_result>>
treeVars == <<root_nodes, lines, search_impl>>
centreVars == <<centre_input, centred>>
vars == <<stitchVars, sumVars, distVars, segVars, treeVars, centreVars>>

----------------------------------------------------------------------------
(* Bounds of the model.                                                    *)

\* Longest sequence of selected cells.
MaxLen == 3
\* Selected cells have coordinates in -1 .. MaxCoord.
MaxCoord == 0
\* add_distance arguments have coordinates in 0 .. MaxPoint.
MaxPoint == 3
\* Number of add_distance calls on one SymbolicSum.
MaxAdds == 4

----------------------------------------------------------------------------
(* grid_cell.rs                                                            *)

GridCell(x, y) == [x |-> x, y |-> y]

Add(self, rhs) == [x |-> self.x + rhs.x, y |-> self.y + rhs.y]

Sub(self, rhs) == [x |-> self.x - rhs.x, y |-> self.y - rhs.y]

\* Variant of euclidean_distance_squared: the second square takes self.x for self.y.
euclidean_distance_squared_mixed(self, other) ==
    (other.x - self.x) * (other.x - self.x) + (other.y - self.x) * (other.y - self.x)

euclidean_distance_squared(self, other) ==
    (other.x - self.x) * (other.x - self.x) + (other.y - self.y) * (other.y - self.y)

----------------------------------------------------------------------------
(* stitch.rs: StartingStitchCorner                                         *)

BottomLeft == 0
TopLeft == 1
TopRight == 2
BottomRight == 3

StartingStitchCorner == {BottomLeft, TopLeft, TopRight, BottomRight}

\* Variant of get_possible_top_stitch_corners: the second option is off by one.
get_possible_top_stitch_corners_plus2(self) ==
    LET first_option == (self + 1) % 4
        second_option == (self + 2) % 4
    IN  <<first_option, second_option>>

get_possible_top_stitch_corners(self) ==
    LET first_option == (self + 1) % 4
        second_option == (self + 3) % 4
    IN  <<first_option, second_option>>

\* Variant of get_offset_from_bottom_left: TopLeft and BottomRight swapped.
get_offset_from_bottom_left_swapped(self) ==
    CASE self = BottomLeft -> GridCell(0, 0)
      [] self = BottomRight -> GridCell(0, 1)
      [] self = TopLeft -> GridCell(1, 0)
      [] self = TopRight -> GridCell(1, 1)

get_offset_from_bottom_left(self) ==
    CASE self = BottomLeft -> GridCell(0, 0)
      [] self = BottomRight -> GridCell(1, 0)
      [] self = TopLeft -> GridCell(0, 1)
      [] self = TopRight -> GridCell(1, 1)

\* Variant of get_opposite_corner: three steps on instead of two.
get_opposite_corner_plus3(self) == (self + 3) % 4

get_opposite_corner(self) == (self + 2) % 4

----------------------------------------------------------------------------
(* stitch.rs: HalfStitch                                                   *)

HalfStitch(start, stitch_corner) == [start |-> start, stitch_corner |-> stitch_corner]

\* Variant of get_end_location: the corner offset is not taken off the start.
get_end_location_from_start(self) ==
    Add(self.start, get_offset_from_bottom_left(get_opposite_corner(self.stitch_corner)))

get_end_location(self) ==
    LET origin == Sub(self.start, get_offset_from_bottom_left(self.stitch_corner))
    IN  Add(origin, get_offset_from_bottom_left(get_opposite_corner(self.stitch_corner)))

\* The for loop of convert_grid_cells from input position i on, with the
\* seen_cells map (its key set) and the output built so far.
RECURSIVE convert_loop(_, _, _, _, _, _)
convert_loop(cells, i, seen_cells, out, first_dir, second_dir) ==
    IF i > Len(cells) THEN out
    ELSE LET cell == cells[i] IN
         IF cell \notin seen_cells
         THEN convert_loop(cells, i + 1, seen_cells \cup {cell},
                  Append(out, HalfStitch(Add(cell, get_offset_from_bottom_left(first_dir)),
                                         first_dir)),
                  first_dir, second_dir)
         ELSE convert_loop(cells, i + 1, seen_cells,
                  Append(out, HalfStitch(Add(cell, get_offset_from_bottom_left(second_dir)),
                                         second_dir)),
                  first_dir, second_dir)

\* Variant of convert_grid_cells: the second occurrence of a cell forgets it.
RECURSIVE convert_loop_toggle(_, _, _, _, _, _)
convert_loop_toggle(cells, i, seen_cells, out, first_dir, second_dir) ==
    IF i > Len(cells) THEN out
    ELSE LET cell == cells[i] IN
         IF cell \notin seen_cells
         THEN convert_loop_toggle(cells, i + 1, seen_cells \cup {cell},
                  Append(out, HalfStitch(Add(cell, get_offset_from_bottom_left(first_dir)),
                                         first_dir)),
                  first_dir, second_dir)
         ELSE convert_loop_toggle(cells, i + 1, seen_cells \ {cell},
                  Append(out, HalfStitch(Add(cell, get_offset_from_bottom_left(second_dir)),
                                         second_dir)),
                  first_dir, second_dir)

convert_grid_cells_toggle(cells, first_dir, second_dir) ==
    convert_loop_toggle(cells, 1, {}, <<>>, first_dir, second_dir)

convert_grid_cells(cells, first_dir, second_dir) ==
    convert_loop(cells, 1, {}, <<>>, first_dir, second_dir)

----------------------------------------------------------------------------
(* Result<_, (GridCell, GridCell)> values.                                 *)

Ok(value) == [tag |-> "Ok", value |-> value, pair |-> <<>>]
Err(a, b) == [tag |-> "Err", value |-> "", pair |-> <<a, b>>]
NoResult == [tag |-> "None", value |-> "", pair |-> <<>>]

\* The for loop of _check_valid_sequence from position i on; last_stitch is
\* the index of the previous stitch, 0 for None.
RECURSIVE check_loop(_, _, _)
check_loop(seq, i, last_stitch) ==
    IF i > Len(seq) THEN Ok("")
    ELSE IF last_stitch # 0 /\ get_end_location(seq[last_stitch]) = seq[i].start
         THEN Err(seq[last_stitch].start, seq[i].start)
         ELSE check_loop(seq, i + 1, i)

\* Variant of _check_valid_sequence: the scan does not return at the first
\* offending pair and reports the last one.
RECURSIVE check_loop_last(_, _, _, _)
check_loop_last(seq, i, last_stitch, found) ==
    IF i > Len(seq) THEN found
    ELSE IF last_stitch # 0 /\ get_end_location(seq[last_stitch]) = seq[i].start
         THEN check_loop_last(seq, i + 1, i, Err(seq[last_stitch].start, seq[i].start))
         ELSE check_loop_last(seq, i + 1, i, found)

_check_valid_sequence_last(seq) == check_loop_last(seq, 1, 0, Ok(""))

\* Variant of _check_valid_sequence: a stitch is compared with the start of
\* the one before, not with its end location.
RECURSIVE check_loop_starts(_, _, _)
check_loop_starts(seq, i, last_stitch) ==
    IF i > Len(seq) THEN Ok("")
    ELSE IF last_stitch # 0 /\ seq[last_stitch].start = seq[i].start
         THEN Err(seq[last_stitch].start, seq[i].start)
         ELSE check_loop_starts(seq, i + 1, i)

_check_valid_sequence_starts(seq) == check_loop_starts(seq, 1, 0)

_check_valid_sequence(seq) == check_loop(seq, 1, 0)

----------------------------------------------------------------------------
(* grid_cell.rs: euclidean_distance.  An f64 is modelled as a fixed-point  *)
(* number with six decimals (the value is in units of 10^-6, truncated):   *)
(* sqrt of a perfect square is exact, as IEEE sqrt is.                     *)

IntSqrt(n) == CHOOSE r \in 0..n : r * r <= n /\ (r + 1) * (r + 1) > n

\* Long-hand square root: k more decimal digits of the root r with remainder rem.
RECURSIVE sqrt_digits(_, _, _)
sqrt_digits(r, rem, k) ==
    IF k = 0 THEN r
    ELSE LET c == rem * 100
             d == CHOOSE e \in 0..9 :
                     /\ (20 * r + e) * e <= c
                     /\ (e = 9 \/ (20 * r + e + 1) * (e + 1) > c)
         IN  sqrt_digits(10 * r + d, c - (20 * r + d) * d, k - 1)

euclidean_distance(self, other) ==
    LET n == euclidean_distance_squared(self, other)
    IN  sqrt_digits(IntSqrt(n), n - IntSqrt(n) * IntSqrt(n), 6)

\* format!("{:.4}", f): round to four decimals, always print four of them.
format_4(f) ==
    LET q == (f + 50) \div 100
        frac == q % 10000
    IN  ToString(q \div 10000) \o "." \o ToString(frac \div 1000)
            \o ToString((frac \div 100) % 10) \o ToString((frac \div 10) % 10)
            \o ToString(frac % 10)

----------------------------------------------------------------------------
(* symbolic_sum.rs                                                         *)

\* SymbolicSum::default()
SymbolicSum == [constant |-> 0, square_root_terms |-> <<>>]

\* Factorization::<u64>::run(num).factors: the prime factors of num with
\* multiplicity, in ascending order.
RECURSIVE trial_division(_, _)
trial_division(n, p) ==
    IF n = 1 THEN <<>>
    ELSE IF p * p > n THEN <<n>>
    ELSE IF n % p = 0 THEN <<p>> \o trial_division(n \div p, p)
    ELSE trial_division(n, p + 1)

Factorization_run(num) == trial_division(num, 2)

\* The exponent of each prime factor (the factor_counts map).
\* Variant of factor_counts: each prime is entered once, not counted.
factor_counts_distinct(factors) ==
    [prime \in {factors[i] : i \in DOMAIN factors} |-> 1]

factor_counts(factors) ==
    [prime \in {factors[i] : i \in DOMAIN factors} |->
        Cardinality({i \in DOMAIN factors : factors[i] = prime})]

\* usize::pow; 0.pow(0) is 1.
pow(base, exp) == IF exp = 0 THEN 1 ELSE base ^ exp

\* The fold over factor_counts: (largest_square_divisor, remainder_factor).
RECURSIVE fold_counts(_, _, _, _)
fold_counts(counts, primes, square, rem) ==
    IF primes = {} THEN <<square, rem>>
    ELSE LET prime == CHOOSE p \in primes : TRUE
             exp == counts[prime]
             square_power == exp \div 2
             remainder == exp % 2
         IN  fold_counts(counts, primes \ {prime},
                         square * pow(prime, square_power),
                         rem * (IF remainder > 0 THEN prime ELSE 1))

decompose(squared_number) ==
    LET counts == factor_counts(Factorization_run(squared_number))
        folded == fold_counts(counts, DOMAIN counts, 1, 1)
        largest_square_divisor == folded[1]
        remainder_factor == folded[2]
    IN  (IF remainder_factor = 1 THEN 1 ELSE remainder_factor) :> largest_square_divisor

\* Variant of add_distance: the entry for 1 is read but not removed.
add_distance_keep_one(self, first_cell, second_cell) ==
    LET squared_distance == euclidean_distance_squared(first_cell, second_cell)
        decomp_irrationals == decompose(squared_distance)
        removed == IF 1 \in DOMAIN decomp_irrationals THEN decomp_irrationals[1] ELSE 0
        rest == decomp_irrationals
        terms == self.square_root_terms
    IN  [constant |-> self.constant + removed,
         square_root_terms |->
            [key \in DOMAIN terms \cup DOMAIN rest |->
                (IF key \in DOMAIN terms THEN terms[key] ELSE 0)
                + (IF key \in DOMAIN rest THEN rest[key] ELSE 0)]]

add_distance(self, first_cell, second_cell) ==
    LET squared_distance == euclidean_distance_squared(first_cell, second_cell)
        decomp_irrationals == decompose(squared_distance)
        removed == IF 1 \in DOMAIN decomp_irrationals THEN decomp_irrationals[1] ELSE 0
        rest == [key \in DOMAIN decomp_irrationals \ {1} |-> decomp_irrationals[key]]
        terms == self.square_root_terms
    IN  [constant |-> self.constant + removed,
         square_root_terms |->
            [key \in DOMAIN terms \cup DOMAIN rest |->
                (IF key \in DOMAIN terms THEN terms[key] ELSE 0)
                + (IF key \in DOMAIN rest THEN rest[key] ELSE 0)]]

\* Stands for the radical sign U+221A, which is not a TLA+ string character.
Radical == "sqrt"

\* Variant of fmt_terms: a coefficient of 1 is written out.
RECURSIVE fmt_terms_ge(_, _)
fmt_terms_ge(terms, keys) ==
    IF keys = {} THEN ""
    ELSE LET k == CHOOSE m \in keys : \A o \in keys : m <= o
             coefficient == terms[k]
         IN  (IF coefficient >= 1
              THEN " + " \o ToString(coefficient) \o Radical \o ToString(k)
              ELSE " + " \o Radical \o ToString(k))
             \o fmt_terms_ge(terms, keys \ {k})

\* The loop of Display::fmt over the sorted keys.
RECURSIVE fmt_terms(_, _)
fmt_terms(terms, keys) ==
    IF keys = {} THEN ""
    ELSE LET k == CHOOSE m \in keys : \A o \in keys : m <= o
             coefficient == terms[k]
         IN  (IF coefficient > 1
              THEN " + " \o ToString(coefficient) \o Radical \o ToString(k)
              ELSE " + " \o Radical \o ToString(k))
             \o fmt_terms(terms, keys \ {k})

\* Variant of to_string over fmt_terms_ge.
to_string_ge(self) ==
    ToString(self.constant) \o fmt_terms_ge(self.square_root_terms, DOMAIN self.square_root_terms)

\* impl Display for SymbolicSum
to_string(self) ==
    ToString(self.constant) \o fmt_terms(self.square_root_terms, DOMAIN self.square_root_terms)

----------------------------------------------------------------------------
(* stitch.rs: cost of a sequence                                           *)

\* The loop over stitches.windows(2) from window i on.
RECURSIVE cost_float_loop(_, _, _)
cost_float_loop(seq, i, total) ==
    IF i + 1 > Len(seq) THEN total
    ELSE LET first_point == get_end_location(seq[i])
             second_point == seq[i + 1].start
         IN  cost_float_loop(seq, i + 1, total + euclidean_distance(first_point, second_point))

_calculate_cost_float(seq) == cost_float_loop(seq, 1, 0)

RECURSIVE cost_symbolic_loop(_, _, _)
cost_symbolic_loop(seq, i, distance) ==
    IF i + 1 > Len(seq) THEN distance
    ELSE cost_symbolic_loop(seq, i + 1,
             add_distance(distance, get_end_location(seq[i]), seq[i + 1].start))

_calculate_cost_symbolic(seq) == cost_symbolic_loop(seq, 1, SymbolicSum)

\* Variant of check_valid_sequence_float: the cost is computed unchecked.
check_valid_sequence_float_unchecked(seq) ==
    Ok(format_4(_calculate_cost_float(seq)))

check_valid_sequence_float(seq) ==
    LET checked == _check_valid_sequence(seq)
    IN  IF checked.tag = "Err" THEN checked
        ELSE Ok(format_4(_calculate_cost_float(seq)))

check_valid_sequence_symbolic(seq) ==
    LET checked == _check_valid_sequence(seq)
    IN  IF checked.tag = "Err" THEN checked
        ELSE Ok(to_string(_calculate_cost_symbolic(seq)))

----------------------------------------------------------------------------
(* SpecStitch: the draw pipeline.                                          *)

Cells == [x : (0 - 1)..MaxCoord, y : (0 - 1)..MaxCoord]

RECURSIVE SeqsUpTo(_, _)
SeqsUpTo(S, n) ==
    IF n = 0 THEN {<<>>}
    ELSE LET shorter == SeqsUpTo(S, n - 1)
         IN  shorter \cup {Append(q, e) : q \in {t \in shorter : Len(t) = n - 1}, e \in S}

SumIdle ==
    /\ sum = SymbolicSum
    /\ calls = 0

DistIdle ==
    /\ cell_a = GridCell(0, 0)
    /\ cell_b = GridCell(0, 0)
    /\ overflow_checks = TRUE
    /\ distance_result = [tag |-> "NotCalled"]

SegIdle ==
    /\ seg_s = [start |-> GridCell(0, 0), end |-> GridCell(0, 0), order |-> 0]
    /\ seg_t = [start |-> GridCell(0, 0), end |-> GridCell(0, 0), order |-> 0]
    /\ overlap_result = [tag |-> "NotCalled"]

TreeIdle ==
    /\ root_nodes = <<>>
    /\ lines = <<>>
    /\ search_impl = "none"

CentreIdle ==
    /\ centre_input = <<>>
    /\ centred = [tag |-> "NotCalled"]

InitStitch ==
    /\ selected_cells \in SeqsUpTo(Cells, MaxLen)
    /\ first_stitch_direction \in StartingStitchCorner
    /\ second_stitch_direction \in StartingStitchCorner
    /\ stitches = <<>>
    /\ float_result = NoResult
    /\ symbolic_result = NoResult
    /\ pc = "selected"
    /\ SumIdle
    /\ DistIdle
    /\ SegIdle
    /\ TreeIdle
    /\ CentreIdle

ConvertGridCells ==
    /\ pc = "selected"
    /\ stitches' = convert_grid_cells(selected_cells, first_stitch_direction,
                                      second_stitch_direction)
    /\ pc' = "converted"
    /\ UNCHANGED <<selected_cells, first_stitch_direction, second_stitch_direction,
                   float_result, symbolic_result, sumVars, distVars, segVars, treeVars, centreVars>>

CheckValidSequenceFloat ==
    /\ pc = "converted"
    /\ float_result = NoResult
    /\ float_result' = check_valid_sequence_float(stitches)
    /\ UNCHANGED <<selected_cells, first_stitch_direction, second_stitch_direction,
                   stitches, symbolic_result, pc, sumVars, distVars, segVars, treeVars, centreVars>>

CheckValidSequenceSymbolic ==
    /\ pc = "converted"
    /\ symbolic_result = NoResult
    /\ symbolic_result' = check_valid_sequence_symbolic(stitches)
    /\ UNCHANGED <<selected_cells, first_stitch_direction, second_stitch_direction,
                   stitches, float_result, pc, sumVars, distVars, segVars, treeVars, centreVars>>

NextStitch ==
    \/ ConvertGridCells
    \/ CheckValidSequenceFloat
    \/ CheckValidSequenceSymbolic

SpecStitch == InitStitch /\ [][NextStitch]_vars

----------------------------------------------------------------------------
(* SpecSum: one SymbolicSum under add_distance calls.                      *)

Points == [x : 0..MaxPoint, y : 0..MaxPoint]

StitchIdle ==
    /\ selected_cells = <<>>
    /\ first_stitch_direction = BottomLeft
    /\ second_stitch_direction = BottomLeft
    /\ stitches = <<>>
    /\ float_result = NoResult
    /\ symbolic_result = NoResult
    /\ pc = "idle"

InitSum ==
    /\ SumIdle
    /\ StitchIdle
    /\ DistIdle
    /\ SegIdle
    /\ TreeIdle
    /\ CentreIdle

\* The only caller, _calculate_cost_symbolic, runs after the validity check,
\* so the two points of a call are distinct.
AddDistance(first_cell, second_cell) ==
    /\ calls < MaxAdds
    /\ first_cell # second_cell
    /\ sum' = add_distance(sum, first_cell, second_cell)
    /\ calls' = calls + 1
    /\ UNCHANGED <<stitchVars, distVars, segVars, treeVars, centreVars>>

NextSum == \E first_cell \in Points, second_cell \in Points :
               AddDistance(first_cell, second_cell)

SpecSum == InitSum /\ [][NextSum]_vars

----------------------------------------------------------------------------
(* Properties of the validity check and of the two cost modes.             *)

\* Positions i whose pair (seq[i], seq[i+1]) joins end to start.
Offending(seq) ==
    {i \in 1..(Len(seq) - 1) : get_end_location(seq[i]) = seq[i + 1].start}

\* C1: the validity check returns Err((prev.start, curr.start)) for the first
\* adjacent pair with prev.end_location() = curr.start, and Ok(()) exactly
\* when no adjacent pair is like that.
C1_FirstOffendingPair ==
    pc = "converted" =>
        LET checked == _check_valid_sequence(stitches)
            bad == Offending(stitches)
        IN  /\ (bad = {}) <=> (checked = Ok(""))
            /\ bad # {} =>
                 LET i == CHOOSE m \in bad : \A o \in bad : m <= o
                 IN  checked = Err(stitches[i].start, stitches[i + 1].start)
            /\ Len(stitches) <= 1 => checked = Ok("")

\* A checked sequence with two offending pairs that name different cells.
C1_Witness ==
    /\ pc = "converted"
    /\ float_result.tag = "Err"
    /\ Offending(stitches) = {1, 2}
    /\ stitches[1].start # stitches[2].start

\* C2: both cost modes return the validity check's error unchanged when the
\* sequence is invalid and Ok(cost) only when it is valid, so they agree on
\* Ok versus Err and on the reported pair.
C2_ModesPropagateCheck ==
    LET checked == _check_valid_sequence(stitches)
    IN  /\ float_result # NoResult =>
              IF checked.tag = "Err" THEN float_result = checked
              ELSE float_result.tag = "Ok"
        /\ symbolic_result # NoResult =>
              IF checked.tag = "Err" THEN symbolic_result = checked
              ELSE symbolic_result.tag = "Ok"
        /\ (float_result # NoResult /\ symbolic_result # NoResult) =>
              /\ float_result.tag = symbolic_result.tag
              /\ float_result.pair = symbolic_result.pair

\* Both modes have run on an invalid sequence.
C2_Witness ==
    /\ float_result.tag = "Err"
    /\ symbolic_result.tag = "Err"
    /\ Len(stitches) = 3
    /\ Offending(stitches) = {2}

\* C3: convert_grid_cells returns one half-stitch per input cell, in input
\* order: the first corner for the first occurrence of a cell, the second
\* corner for every later occurrence.
C3_ConvertByOccurrence ==
    pc = "converted" =>
        /\ Len(stitches) = Len(selected_cells)
        /\ \A i \in 1..Len(selected_cells) :
              LET cell == selected_cells[i]
                  corner == IF \A j \in 1..(i - 1) : selected_cells[j] # cell
                            THEN first_stitch_direction
                            ELSE second_stitch_direction
              IN  stitches[i] = [start |-> Add(cell, get_offset_from_bottom_left(corner)),
                                 stitch_corner |-> corner]

\* One cell selected three times, with two different corners.
C3_Witness ==
    /\ pc = "converted"
    /\ Len(selected_cells) = 3
    /\ selected_cells[1] = selected_cells[2]
    /\ selected_cells[2] = selected_cells[3]
    /\ first_stitch_direction # second_stitch_direction

Abs(n) == IF n < 0 THEN 0 - n ELSE n

\* C4: the half-stitch of cell p with corner c ends at p + opposite(c).offset(),
\* the diagonally opposite corner of the same unit cell, one away from its
\* start in both x and y.
C4_EndIsOppositeCorner ==
    /\ pc = "converted" =>
          \A i \in 1..Len(stitches) :
              LET p == selected_cells[i]
                  c == stitches[i].stitch_corner
                  end == get_end_location(stitches[i])
              IN  /\ stitches[i].start = Add(p, get_offset_from_bottom_left(c))
                  /\ end = Add(p, get_offset_from_bottom_left(get_opposite_corner(c)))
                  /\ Abs(end.x - stitches[i].start.x) = 1
                  /\ Abs(end.y - stitches[i].start.y) = 1
                  /\ end.x \in {p.x, p.x + 1}
                  /\ end.y \in {p.y, p.y + 1}
    /\ get_end_location(HalfStitch(GridCell(0, 0), BottomLeft)) = GridCell(1, 1)
    /\ get_end_location(HalfStitch(GridCell(0, 0), BottomRight)) = GridCell(0 - 1, 1)

\* Stitches of a bottom-right and of a top-left corner have been built.
C4_Witness ==
    /\ pc = "converted"
    /\ Len(stitches) = 2
    /\ stitches[1].stitch_corner = BottomRight
    /\ stitches[2].stitch_corner = TopLeft

\* C5: opposite is an involution, and the two possible top stitch corners
\* of c are two distinct corners, neither c nor opposite(c).
C5_CornerAlgebra ==
    \A c \in {first_stitch_direction, second_stitch_direction} :
        LET adjacent == get_possible_top_stitch_corners(c)
        IN  /\ get_opposite_corner(get_opposite_corner(c)) = c
            /\ Len(adjacent) = 2
            /\ adjacent[1] \in StartingStitchCorner
            /\ adjacent[2] \in StartingStitchCorner
            /\ adjacent[1] # adjacent[2]
            /\ c \notin {adjacent[1], adjacent[2]}
            /\ get_opposite_corner(c) \notin {adjacent[1], adjacent[2]}

\* The corner whose successor wraps around, configured with one of its
\* possible top stitch corners.
C5_Witness ==
    /\ first_stitch_direction = BottomRight
    /\ second_stitch_direction = get_possible_top_stitch_corners(first_stitch_direction)[1]
    /\ pc = "converted"
    /\ Len(stitches) = 1

\* Position of corner c in a cycle of the four corners.
IndexIn(cycle, c) == CHOOSE i \in 1..4 : cycle[i] = c

\* The corner k steps after c in the cycle.
StepsAfter(cycle, c, k) == cycle[((IndexIn(cycle, c) - 1 + k) % 4) + 1]

\* opposite, adjacent and the offsets, read off a given cyclic order.
CornersFollow(cycle, c) ==
    LET adjacent == get_possible_top_stitch_corners(c)
    IN  /\ get_opposite_corner(c) = StepsAfter(cycle, c, 2)
        /\ {adjacent[1], adjacent[2]} = {StepsAfter(cycle, c, 1), StepsAfter(cycle, c, 3)}
        /\ get_offset_from_bottom_left(BottomLeft) = GridCell(0, 0)
        /\ get_offset_from_bottom_left(BottomRight) = GridCell(1, 0)
        /\ get_offset_from_bottom_left(TopLeft) = GridCell(0, 1)
        /\ get_offset_from_bottom_left(TopRight) = GridCell(1, 1)

\* C6 as stated: the cycle is BottomLeft, BottomRight, TopLeft, TopRight.
C6_Original_CycleBlBrTlTr ==
    pc = "converted" =>
    CornersFollow(<<BottomLeft, BottomRight, TopLeft, TopRight>>, first_stitch_direction)

\* C6: the corners are cyclically ordered BottomLeft, TopLeft, TopRight,
\* BottomRight; opposite(c) is two steps after c in that cycle, adjacent(c)
\* are the corners one step before and one step after c, and the offsets are
\* BottomLeft (0,0), BottomRight (1,0), TopLeft (0,1), TopRight (1,1).
C6_CycleBlTlTrBr ==
    pc = "converted" =>
    CornersFollow(<<BottomLeft, TopLeft, TopRight, BottomRight>>, first_stitch_direction)

\* A stitch built with the top-left corner first.
C6_Witness ==
    /\ first_stitch_direction = TopLeft
    /\ pc = "converted"
    /\ Len(stitches) >= 1
    /\ get_end_location(stitches[1]) = Add(selected_cells[1], GridCell(1, 0))

\* One cell selected twice in a row, the second corner a possible top stitch
\* corner of the first.
OneCross ==
    /\ pc = "converted"
    /\ Len(selected_cells) = 2
    /\ selected_cells[1] = selected_cells[2]
    /\ \E k \in 1..2 :
          second_stitch_direction = get_possible_top_stitch_corners(first_stitch_direction)[k]

\* C7: one completed cross is a valid sequence whose single travel has
\* squared distance 1: float cost 1.0000, symbolic cost 1.
C7_OneCrossCostsOne ==
    OneCross =>
        /\ _check_valid_sequence(stitches) = Ok("")
        /\ euclidean_distance_squared(get_end_location(stitches[1]), stitches[2].start) = 1
        /\ float_result # NoResult => float_result = Ok("1.0000")
        /\ symbolic_result # NoResult => symbolic_result = Ok("1")
        /\ _calculate_cost_symbolic(stitches) = [constant |-> 1, square_root_terms |-> <<>>]

\* Both costs of one completed cross have been computed.
C7_Witness ==
    /\ OneCross
    /\ float_result.tag = "Ok"
    /\ symbolic_result.tag = "Ok"

----------------------------------------------------------------------------
(* Properties of SymbolicSum.                                              *)

SquareFree(n) == \A k \in 2..n : n % (k * k) # 0

\* The pairs <<S, R>> with d2 = S * S * R and R square-free.
SquareDecompositions(d2) ==
    {sr \in {<<s, d2 \div (s * s)>> : s \in {t \in 1..d2 : d2 % (t * t) = 0}} :
        SquareFree(sr[2])}

\* The value of map at key, 0 for an absent key.
ValueOr0(map, key) == IF key \in DOMAIN map THEN map[key] ELSE 0

\* C8: add_distance with squared distance d2 >= 1 takes the unique (S, R) with
\* d2 = S * S * R and R square-free, adds S to constant if R = 1 and to
\* terms[R] otherwise, and changes nothing else.
C8_AddDistanceDecomposes ==
    /\ \A a \in Points, b \in Points :
          LET d2 == euclidean_distance_squared(a, b)
              after == add_distance(sum, a, b)
              terms == sum.square_root_terms
          IN  d2 >= 1 =>
                /\ Cardinality(SquareDecompositions(d2)) = 1
                /\ LET sr == CHOOSE p \in SquareDecompositions(d2) : TRUE
                       S == sr[1]
                       R == sr[2]
                   IN  /\ after.constant = sum.constant + (IF R = 1 THEN S ELSE 0)
                       /\ DOMAIN after.square_root_terms =
                              DOMAIN terms \cup (IF R = 1 THEN {} ELSE {R})
                       /\ \A k \in DOMAIN after.square_root_terms :
                              after.square_root_terms[k] =
                                  ValueOr0(terms, k) + (IF k = R THEN S ELSE 0)
    /\ decompose(4) = (1 :> 2)
    /\ decompose(8) = (2 :> 2)
    /\ decompose(32) = (2 :> 4)
    /\ decompose(5) = (5 :> 1)
    /\ \A k \in 1..6 : decompose(k * k) = (1 :> k)

\* A sum that has taken a perfect square, and a radical with a square factor
\* twice.
C8_Witness ==
    /\ calls = 3
    /\ sum.constant = 3
    /\ DOMAIN sum.square_root_terms = {2}
    /\ sum.square_root_terms[2] = 5

C10_AddDistanceCommutes ==
    \A a \in Points, b \in Points :
        add_distance(sum, a, b) = add_distance(sum, b, a)

\* A sum that already holds a constant and a radical.
C10_Witness ==
    /\ calls = 2
    /\ sum.constant = 1
    /\ DOMAIN sum.square_root_terms = {13}

\* The terms of the given keys, largest radicand last, a coefficient of 1 left out.
RECURSIVE RenderTerms(_, _)
RenderTerms(terms, keys) ==
    IF keys = {} THEN ""
    ELSE LET k == CHOOSE m \in keys : \A o \in keys : m >= o
         IN  RenderTerms(terms, keys \ {k}) \o " + "
             \o (IF terms[k] = 1 THEN "" ELSE ToString(terms[k]))
             \o Radical \o ToString(k)

\* C11: the rendering is the constant, printed even when zero, followed by
\* the non-zero terms in ascending order of radicand, each " + {coefficient}"
\* then the radical sign and the radicand, the coefficient left out when it is 1.
C11_RenderingCanonical ==
    LET terms == sum.square_root_terms
    IN  /\ to_string(sum) =
              ToString(sum.constant)
              \o RenderTerms(terms, {k \in DOMAIN terms : terms[k] # 0})
        /\ sum = SymbolicSum => to_string(sum) = "0"

\* A sum whose radicands sort differently as numbers and as text, one with
\* coefficient 1 and one with a larger coefficient.
C11_Witness ==
    /\ calls = 4
    /\ to_string(sum) = "2 + 2sqrt2 + sqrt10"

(***************************************************************************)
(* euclidean_distance_squared on machine integers                          *)
(***************************************************************************)

\* The width of isize and usize in the model.
IntBits == 8

MinInt == -(2 ^ (IntBits - 1))
MaxInt == 2 ^ (IntBits - 1) - 1

\* The outcome of a call: not made yet, returned a value, or panicked.
NotCalled == [tag |-> "NotCalled"]
Returned(value) == [tag |-> "Returned", value |-> value]
Panicked == [tag |-> "Panicked"]

\* Two's complement wrap-around of an isize result.
wrapping(n) == ((n - MinInt) % (2 ^ IntBits)) + MinInt

\* The cast `as usize` of an isize.
as_usize(n) == n % (2 ^ IntBits)

InRange(n) == MinInt <= n /\ n <= MaxInt

\* checked_pow(2) on isize: <<>> stands for None.
checked_pow_2(n) == IF InRange(n * n) THEN <<n * n>> ELSE <<>>

\* euclidean_distance_squared as the build computes it: `-` and `+` panic
\* on overflow when the build checks them and wrap when it does not;
\* checked_pow(2).unwrap() panics on overflow in every build.
euclidean_distance_squared_isize(self, other, checks) ==
    LET dx == other.x - self.x
        dy == other.y - self.y
    IN  IF checks /\ ~InRange(dx) THEN Panicked
        ELSE LET px == checked_pow_2(wrapping(dx))
             IN  IF px = <<>> THEN Panicked
                 ELSE IF checks /\ ~InRange(dy) THEN Panicked
                 ELSE LET py == checked_pow_2(wrapping(dy))
                      IN  IF py = <<>> THEN Panicked
                          ELSE IF checks /\ ~InRange(px[1] + py[1]) THEN Panicked
                          ELSE Returned(as_usize(wrapping(px[1] + py[1])))

\* Coordinates at and near the ends of the isize range.
Extremes == {MinInt, MinInt + 1, -1, 0, 1, MaxInt}

InitDistance ==
    /\ cell_a \in {GridCell(x, y) : x \in Extremes, y \in Extremes}
    /\ cell_b \in {GridCell(x, y) : x \in Extremes, y \in Extremes}
    /\ overflow_checks \in BOOLEAN
    /\ distance_result = NotCalled
    /\ StitchIdle
    /\ SumIdle
    /\ SegIdle
    /\ TreeIdle
    /\ CentreIdle

\* One call cell_a.euclidean_distance_squared(&cell_b).
EuclideanDistanceSquared ==
    /\ distance_result = NotCalled
    /\ distance_result' = euclidean_distance_squared_isize(cell_a, cell_b, overflow_checks)
    /\ UNCHANGED <<cell_a, cell_b, overflow_checks>>
    /\ UNCHANGED <<stitchVars, sumVars, segVars, treeVars, centreVars>>

NextDistance == EuclideanDistanceSquared

SpecDistance == InitDistance /\ [][NextDistance]_vars

\* The mathematical value (bx-ax)^2 + (by-ay)^2.
ExactSquaredDistance(a, b) == (b.x - a.x) * (b.x - a.x) + (b.y - a.y) * (b.y - a.y)

\* Some step of the isize computation leaves the isize range.
OverflowsIsize(a, b) ==
    \/ ~InRange(b.x - a.x)
    \/ ~InRange(b.y - a.y)
    \/ ~InRange((b.x - a.x) * (b.x - a.x))
    \/ ~InRange((b.y - a.y) * (b.y - a.y))
    \/ ~InRange(ExactSquaredDistance(a, b))

\* C12: the squared distance either returns exactly (bx-ax)^2 + (by-ay)^2 or
\* fails; when the difference, a square or the sum overflows it fails and
\* never returns a wrapped value.
C12_ExactOrOverflow ==
    /\ distance_result.tag = "Returned"
           => distance_result.value = ExactSquaredDistance(cell_a, cell_b)
    /\ (distance_result.tag # "NotCalled" /\ OverflowsIsize(cell_a, cell_b))
           => distance_result.tag = "Panicked"

(***************************************************************************)
(* line_segment.rs                                                         *)
(***************************************************************************)

\* Segment endpoints of SpecOverlap have x in 0 .. MaxSegX and y in 0 .. MaxSegY.
MaxSegX == 3
MaxSegY == 1

LineSegment(start, end, order) == [start |-> start, end |-> end, order |-> order]

\* From<(GridCell, GridCell)>: the order is 0.
FromPair(start, end) == LineSegment(start, end, 0)

\* floor of the euclidean length.
get_length(self) == euclidean_distance(self.start, self.end) \div 1000000

\* enum Axis, and None of Option<Axis>.
Horizontal == "Horizontal"
Vertical == "Vertical"
None == "None"

orientation_swapped(self) ==
    IF self.start.x = self.end.x THEN Horizontal
    ELSE IF self.start.y = self.end.y THEN Vertical
    ELSE None

orientation_no_none(self) ==
    IF self.start.y = self.end.y THEN Horizontal
    ELSE Vertical

orientation(self) ==
    IF self.start.y = self.end.y THEN Horizontal
    ELSE IF self.start.x = self.end.x THEN Vertical
    ELSE None

\* std::cmp::min and std::cmp::max.
min(a, b) == IF b < a THEN b ELSE a
max(a, b) == IF b < a THEN a ELSE b

overlaps_touching(self, other) ==
    IF orientation(self) = None \/ orientation(other) = None THEN FALSE
    ELSE IF orientation(self) # orientation(other) THEN FALSE
    ELSE IF orientation(self) = Horizontal
    THEN IF self.start.y # other.start.y THEN FALSE
         ELSE max(min(self.start.x, self.end.x), min(other.start.x, other.end.x))
                  <= min(max(self.start.x, self.end.x), max(other.start.x, other.end.x))
    ELSE IF self.start.x # other.start.x THEN FALSE
         ELSE max(min(self.start.y, self.end.y), min(other.start.y, other.end.y))
                  <= min(max(self.start.y, self.end.y), max(other.start.y, other.end.y))

overlaps_one_sided(self, other) ==
    IF orientation(self) = None \/ orientation(other) = None THEN FALSE
    ELSE IF orientation(self) # orientation(other) THEN FALSE
    ELSE IF orientation(self) = Horizontal
    THEN IF self.start.y # other.start.y THEN FALSE
         ELSE min(other.start.x, other.end.x) < max(self.start.x, self.end.x)
    ELSE IF self.start.x # other.start.x THEN FALSE
         ELSE min(other.start.y, other.end.y) < max(self.start.y, self.end.y)

overlaps(self, other) ==
    IF orientation(self) = None \/ orientation(other) = None THEN FALSE
    ELSE IF orientation(self) # orientation(other) THEN FALSE
    ELSE IF orientation(self) = Horizontal
    THEN IF self.start.y # other.start.y THEN FALSE
         ELSE LET self_min_x == min(self.start.x, self.end.x)
                  self_max_x == max(self.start.x, self.end.x)
                  other_min_x == min(other.start.x, other.end.x)
                  other_max_x == max(other.start.x, other.end.x)
              IN  max(self_min_x, other_min_x) < min(self_max_x, other_max_x)
    ELSE IF self.start.x # other.start.x THEN FALSE
         ELSE LET self_min_y == min(self.start.y, self.end.y)
                  self_max_y == max(self.start.y, self.end.y)
                  other_min_y == min(other.start.y, other.end.y)
                  other_max_y == max(other.start.y, other.end.y)
              IN  max(self_min_y, other_min_y) < min(self_max_y, other_max_y)

SegPoints == {GridCell(x, y) : x \in 0..MaxSegX, y \in 0..MaxSegY}

\* Every segment between two points, in both directions, the diagonal and
\* the zero-length ones included.
Segments == {FromPair(a, b) : a \in SegPoints, b \in SegPoints}

InitOverlap ==
    /\ seg_s \in Segments
    /\ seg_t \in Segments
    /\ overlap_result = NotCalled
    /\ StitchIdle
    /\ SumIdle
    /\ DistIdle
    /\ TreeIdle
    /\ CentreIdle

\* One call seg_s.overlaps(&seg_t).
Overlaps ==
    /\ overlap_result = NotCalled
    /\ overlap_result' = Returned(overlaps(seg_s, seg_t))
    /\ UNCHANGED <<seg_s, seg_t>>
    /\ UNCHANGED <<stitchVars, sumVars, distVars, treeVars, centreVars>>

NextOverlap == Overlaps

SpecOverlap == InitOverlap /\ [][NextOverlap]_vars

----------------------------------------------------------------------------
(* Claims about overlaps                                                   *)

\* Both endpoints on one row, on one column.
OnOneRow(s) == s.start.y = s.end.y
OnOneColumn(s) == s.start.x = s.end.x

\* The closed ranges between a1, a2 and between b1, b2 share a stretch of
\* positive length: some unit interval [k, k+1] lies in both.
SharePositiveLength(a1, a2, b1, b2) ==
    \E k \in (0 - 10)..10 :
        /\ (a1 <= k /\ k + 1 <= a2) \/ (a2 <= k /\ k + 1 <= a1)
        /\ (b1 <= k /\ k + 1 <= b2) \/ (b2 <= k /\ k + 1 <= b1)

\* The overlap relation as the specification words it.
CollinearOverlap(s, t) ==
    \/ /\ OnOneRow(s) /\ OnOneRow(t)
       /\ s.start.y = t.start.y
       /\ SharePositiveLength(s.start.x, s.end.x, t.start.x, t.end.x)
    \/ /\ OnOneColumn(s) /\ OnOneColumn(t)
       /\ s.start.x = t.start.x
       /\ SharePositiveLength(s.start.y, s.end.y, t.start.y, t.end.y)

Reversed(s) == LineSegment(s.end, s.start, s.order)

\* The segment from a to b on the row y = 0.
Row0(a, b) == FromPair(GridCell(a, 0), GridCell(b, 0))

\* C13: s.overlaps(t) holds exactly when both segments are horizontal or both
\* vertical, lie on the same line and their ranges along it share a stretch
\* of strictly positive length; the direction of a segment does not matter.
\* [0,1] and [1,2] do not overlap, [0,5] and [0,1] do, [0,5] and [4,8] do.
C13_OverlapIffCollinearPositive ==
    /\ overlap_result.tag = "Returned" =>
           /\ overlap_result.value = CollinearOverlap(seg_s, seg_t)
           /\ overlap_result.value = overlaps(Reversed(seg_s), seg_t)
           /\ overlap_result.value = overlaps(seg_s, Reversed(seg_t))
           /\ overlap_result.value = overlaps(Reversed(seg_s), Reversed(seg_t))
    /\ ~overlaps(Row0(0, 1), Row0(1, 2))
    /\ overlaps(Row0(0, 5), Row0(0, 1))
    /\ overlaps(Row0(0, 5), Row0(4, 8))

\* [0,2] and [3,1] on the row y = 1 share [1,2].
C13_Witness ==
    /\ seg_s = FromPair(GridCell(0, 1), GridCell(2, 1))
    /\ seg_t = FromPair(GridCell(3, 1), GridCell(1, 1))
    /\ overlap_result = Returned(TRUE)

\* C14: overlaps is symmetric, s.overlaps(t) = t.overlaps(s), for all
\* segments, the diagonal and the zero-length ones included.
C14_OverlapSymmetric ==
    overlap_result.tag = "Returned" =>
        overlap_result.value = overlaps(seg_t, seg_s)

\* A unit column segment against its reverse.
C14_Witness ==
    /\ seg_s = FromPair(GridCell(2, 0), GridCell(2, 1))
    /\ seg_t = FromPair(GridCell(2, 1), GridCell(2, 0))
    /\ overlap_result = Returned(TRUE)

\* Diagonal, or of zero length.
Malformed(s) ==
    \/ s.start = s.end
    \/ (s.start.x # s.end.x /\ s.start.y # s.end.y)

\* C15 as stated: every segment overlaps itself.
C15_Original_EverySegmentOverlapsItself ==
    (overlap_result.tag = "Returned" /\ seg_s = seg_t) =>
        overlap_result.value = TRUE

\* C15: a horizontal or vertical segment of positive length overlaps itself.
C15_WellFormedOverlapsItself ==
    (overlap_result.tag = "Returned" /\ seg_s = seg_t /\ ~Malformed(seg_s)) =>
        overlap_result.value = TRUE

C15_Witness ==
    /\ seg_s = FromPair(GridCell(1, 0), GridCell(1, 1))
    /\ seg_t = seg_s
    /\ overlap_result = Returned(TRUE)

\* C16: a diagonal or zero-length segment overlaps nothing, itself included,
\* whichever side of the call it is on, and the call returns false rather
\* than failing.
C16_MalformedNeverOverlaps ==
    (overlap_result.tag # "NotCalled" /\ (Malformed(seg_s) \/ Malformed(seg_t))) =>
        overlap_result = Returned(FALSE)

\* A diagonal segment against itself.
C16_Witness ==
    /\ seg_s = FromPair(GridCell(0, 0), GridCell(2, 1))
    /\ seg_t = seg_s
    /\ overlap_result = Returned(FALSE)

(***************************************************************************)
(* line_segment_tree.rs                                                    *)
(***************************************************************************)

\* Segments given to the tree lie on the column x = 0 with end points 0 .. MaxTreeCoord.
MaxTreeCoord == 4
\* Number of add_child calls on one tree.
MaxInserts == 3

\* LineSegmentTreeNode::new
LineSegmentTreeNode(line_segment) == [line_segment |-> line_segment, children |-> <<>>]

\* Ordering of a.cmp(&b).
Less == "Less"
Equal == "Equal"
Greater == "Greater"
cmp(a, b) == IF a < b THEN Less ELSE IF a > b THEN Greater ELSE Equal

\* The comparator handed to binary_search_by in insert_segment.
compare_lengths(node, new_node) ==
    cmp(get_length(node.line_segment), get_length(new_node.line_segment))

\* slice::binary_search_by as the standard library writes it up to 1.51 and
\* from 1.82 on: the position is narrowed by halving and the comparison with
\* the element found decides between Ok and Err at the end.
RECURSIVE binary_search_base_size(_, _, _, _)
binary_search_base_size(children, new_node, base, size) ==
    IF size > 1
    THEN LET half == size \div 2
             mid == base + half
             c == compare_lengths(children[mid + 1], new_node)
         IN  binary_search_base_size(children, new_node,
                                     IF c = Greater THEN base ELSE mid, size - half)
    ELSE LET c == compare_lengths(children[base + 1], new_node)
         IN  IF c = Equal THEN base
             ELSE base + (IF c = Less THEN 1 ELSE 0)

\* slice::binary_search_by as the standard library writes it from 1.52 to
\* 1.81: the first element found equal is returned at once.
RECURSIVE binary_search_left_right(_, _, _, _)
binary_search_left_right(children, new_node, left, right) ==
    IF left < right
    THEN LET mid == left + (right - left) \div 2
             c == compare_lengths(children[mid + 1], new_node)
         IN  IF c = Less THEN binary_search_left_right(children, new_node, mid + 1, right)
             ELSE IF c = Greater THEN binary_search_left_right(children, new_node, left, mid)
             ELSE mid
    ELSE left

\* The position pos of Ok(pos) | Err(pos), counted from 0.
binary_search_by(children, new_node, impl) ==
    IF Len(children) = 0 THEN 0
    ELSE IF impl = "base_size"
    THEN binary_search_base_size(children, new_node, 0, Len(children))
    ELSE binary_search_left_right(children, new_node, 0, Len(children))

\* Vec::insert at a position counted from 0.
insert(vec, pos, element) ==
    SubSeq(vec, 1, pos) \o <<element>> \o SubSeq(vec, pos + 1, Len(vec))

\* iter_mut().find(|node| node.line_segment.overlaps(&child)): the index,
\* counted from 1, of the first node that overlaps, 0 when none does.
RECURSIVE find_from(_, _, _)
find_from(nodes, child, i) ==
    IF i > Len(nodes) THEN 0
    ELSE IF overlaps(nodes[i].line_segment, child) THEN i
    ELSE find_from(nodes, child, i + 1)

find(nodes, child) == find_from(nodes, child, 1)

RECURSIVE insert_segment(_, _, _)
RECURSIVE node_add_child(_, _, _)
RECURSIVE _prioritise_node_lengths(_, _, _)

\* LineSegmentTreeNode::insert_segment: the new list of children.
insert_segment(children, child, impl) ==
    LET i == find(children, child)
    IN  IF i # 0
        THEN [children EXCEPT ![i] = _prioritise_node_lengths(child, @, impl)]
        ELSE LET new_node == LineSegmentTreeNode(child)
             IN  insert(children, binary_search_by(children, new_node, impl), new_node)

\* LineSegmentTreeNode::add_child: the node afterwards.
node_add_child(self, child, impl) ==
    [self EXCEPT !.children = insert_segment(@, child, impl)]

\* LineSegmentTreeNode::_prioritise_node_lengths: the parent node afterwards.
_prioritise_node_lengths(line_segment, parent_node, impl) ==
    IF get_length(parent_node.line_segment) >= get_length(line_segment)
    THEN node_add_child(parent_node, line_segment, impl)
    ELSE LET old_root == parent_node.line_segment
         IN  node_add_child([parent_node EXCEPT !.line_segment = line_segment],
                            old_root, impl)

\* Variant of _prioritise_node_lengths: the parent keeps its segment only
\* when it is strictly longer.
_prioritise_node_lengths_gt(line_segment, parent_node, impl) ==
    IF get_length(parent_node.line_segment) > get_length(line_segment)
    THEN node_add_child(parent_node, line_segment, impl)
    ELSE LET old_root == parent_node.line_segment
         IN  node_add_child([parent_node EXCEPT !.line_segment = line_segment],
                            old_root, impl)

\* Variant of tree_add_child over _prioritise_node_lengths_gt.
tree_add_child_gt(roots, line_segment, impl) ==
    LET i == find(roots, line_segment)
    IN  IF i # 0
        THEN [roots EXCEPT ![i] = _prioritise_node_lengths_gt(line_segment, @, impl)]
        ELSE Append(roots, LineSegmentTreeNode(line_segment))

\* Variant of tree_add_child: a new root goes to the front.
tree_add_child_front(roots, line_segment, impl) ==
    LET i == find(roots, line_segment)
    IN  IF i # 0
        THEN [roots EXCEPT ![i] = _prioritise_node_lengths(line_segment, @, impl)]
        ELSE <<LineSegmentTreeNode(line_segment)>> \o roots

\* Variant of tree_add_child: the segment pushed down becomes a direct child
\* of the root, without a search among the children.
tree_add_child_flat(roots, line_segment, impl) ==
    LET i == find(roots, line_segment)
    IN  IF i # 0
        THEN IF get_length(roots[i].line_segment) >= get_length(line_segment)
             THEN [roots EXCEPT ![i].children =
                                    Append(@, LineSegmentTreeNode(line_segment))]
             ELSE [roots EXCEPT ![i] =
                       [line_segment |-> line_segment,
                        children |-> Append(@.children, LineSegmentTreeNode(@.line_segment))]]
        ELSE Append(roots, LineSegmentTreeNode(line_segment))

\* Variant of tree_add_child: the root always keeps its segment.
tree_add_child_no_promote(roots, line_segment, impl) ==
    LET i == find(roots, line_segment)
    IN  IF i # 0
        THEN [roots EXCEPT ![i] = node_add_child(@, line_segment, impl)]
        ELSE Append(roots, LineSegmentTreeNode(line_segment))

\* Variant of tree_add_child: the root that took the segment moves to the
\* front of the list.
tree_add_child_move_front(roots, line_segment, impl) ==
    LET i == find(roots, line_segment)
    IN  IF i # 0
        THEN <<_prioritise_node_lengths(line_segment, roots[i], impl)>>
                 \o SubSeq(roots, 1, i - 1) \o SubSeq(roots, i + 1, Len(roots))
        ELSE Append(roots, LineSegmentTreeNode(line_segment))

\* Variant of tree_add_child: a displaced segment is not put back.
tree_add_child_drop_old(roots, line_segment, impl) ==
    LET i == find(roots, line_segment)
    IN  IF i # 0
        THEN IF get_length(roots[i].line_segment) >= get_length(line_segment)
             THEN [roots EXCEPT ![i] = node_add_child(@, line_segment, impl)]
             ELSE [roots EXCEPT ![i].line_segment = line_segment]
        ELSE Append(roots, LineSegmentTreeNode(line_segment))

\* Variant of tree_add_child: the root gives way to a shorter segment.
tree_add_child_promote_shorter(roots, line_segment, impl) ==
    LET i == find(roots, line_segment)
    IN  IF i # 0
        THEN IF get_length(roots[i].line_segment) <= get_length(line_segment)
             THEN [roots EXCEPT ![i] = node_add_child(@, line_segment, impl)]
             ELSE [roots EXCEPT ![i] =
                       node_add_child([@ EXCEPT !.line_segment = line_segment],
                                      @.line_segment, impl)]
        ELSE Append(roots, LineSegmentTreeNode(line_segment))

\* LineSegmentTree::add_child: the root nodes afterwards.
tree_add_child(roots, line_segment, impl) ==
    LET i == find(roots, line_segment)
    IN  IF i # 0
        THEN [roots EXCEPT ![i] = _prioritise_node_lengths(line_segment, @, impl)]
        ELSE Append(roots, LineSegmentTreeNode(line_segment))

\* The lines a caller can hand over: every segment of the column x = 0 in
\* increasing direction, one of them reversed as well, and a diagonal one.
TreeLines ==
    LET ends == {p \in (0..MaxTreeCoord) \X (0..MaxTreeCoord) : p[1] < p[2]}
    IN  {<<GridCell(0, p[1]), GridCell(0, p[2])>> : p \in ends}
            \cup {<<GridCell(0, 2), GridCell(0, 0)>>, <<GridCell(0, 0), GridCell(1, 1)>>}

InitTree ==
    /\ root_nodes = <<>>
    /\ lines = <<>>
    /\ search_impl \in {"base_size", "left_right"}
    /\ StitchIdle
    /\ SumIdle
    /\ DistIdle
    /\ SegIdle
    /\ CentreIdle

\* One round of the loop of group_lines: tree.add_child of the next line,
\* whose order is its position in the caller's list.
AddChild(line) ==
    /\ Len(lines) < MaxInserts
    /\ LET line_segment == LineSegment(line[1], line[2], Len(lines))
       IN  /\ root_nodes' = tree_add_child(root_nodes, line_segment, search_impl)
           /\ lines' = Append(lines, line_segment)
    /\ UNCHANGED search_impl
    /\ UNCHANGED <<stitchVars, sumVars, distVars, segVars, centreVars>>

NextTree == \E line \in TreeLines : AddChild(line)

SpecTree == InitTree /\ [][NextTree]_vars

----------------------------------------------------------------------------
(* Claims about the tree                                                   *)

\* The segment of the call that led to this state.
LastLine == lines[Len(lines)]

\* The segments below a node, its own segment not included.
RECURSIVE Descendants(_)
Descendants(node) ==
    UNION {{node.children[i].line_segment} \cup Descendants(node.children[i]) :
               i \in 1..Len(node.children)}

\* Every node of the given trees.
RECURSIVE NodesOf(_)
NodesOf(nodes) ==
    UNION {{nodes[i]} \cup NodesOf(nodes[i].children) : i \in 1..Len(nodes)}

\* The segment from a to b on the column x = 0, with its order.
Column0(a, b, order) == LineSegment(GridCell(0, a), GridCell(0, b), order)

Leaf(line_segment) == [line_segment |-> line_segment, children |-> <<>>]

\* C17: an insertion at tree level goes into the first root, in list order,
\* whose segment overlaps the new one, all other roots staying as they are;
\* when no root overlaps, a new childless root is appended after the others.
C17_FirstOverlappingRoot ==
    [][lines' # lines =>
          LET s == lines'[Len(lines')]
              hits == {i \in 1..Len(root_nodes) : overlaps(root_nodes[i].line_segment, s)}
          IN  IF hits = {}
              THEN root_nodes' = Append(root_nodes, Leaf(s))
              ELSE LET first == CHOOSE i \in hits : \A j \in hits : i <= j
                   IN  /\ Len(root_nodes') = Len(root_nodes)
                       /\ \A j \in 1..Len(root_nodes) :
                              j # first => root_nodes'[j] = root_nodes[j]
                       /\ s \in {root_nodes'[first].line_segment}
                                    \cup Descendants(root_nodes'[first])
                       /\ s \notin {root_nodes[first].line_segment}
                                    \cup Descendants(root_nodes[first])]_vars

\* [0,1] and [2,3] became roots in that order; [0,4] overlaps both and went
\* into the first.
C17_Witness ==
    /\ lines = <<Column0(0, 1, 0), Column0(2, 3, 1), Column0(0, 4, 2)>>
    /\ root_nodes = <<[line_segment |-> Column0(0, 4, 2),
                       children |-> <<Leaf(Column0(0, 1, 0))>>],
                      Leaf(Column0(2, 3, 1))>>

\* The node has its first segment and its children have never been promoted,
\* so the children entered the list in the order of their order fields.
ChildrenArrivedInOrder(node) ==
    \A i \in 1..Len(node.children) :
        /\ node.children[i].children = <<>>
        /\ node.line_segment.order < node.children[i].line_segment.order

\* C18: in every node the children are sorted by descending length, and
\* children of equal length stand in the order in which they were inserted.
C18_ChildrenSortedDescending ==
    \A node \in NodesOf(root_nodes) :
        \A i \in 1..Len(node.children) : \A j \in 1..Len(node.children) :
            i < j =>
                /\ get_length(node.children[i].line_segment)
                       >= get_length(node.children[j].line_segment)
                /\ (/\ ChildrenArrivedInOrder(node)
                    /\ get_length(node.children[i].line_segment)
                           = get_length(node.children[j].line_segment))
                       => node.children[i].line_segment.order
                              < node.children[j].line_segment.order

\* C19: the segment of every node overlaps every segment below it; in
\* particular every child overlaps its parent.
C19_NodeOverlapsSubtree ==
    \A node \in NodesOf(root_nodes) :
        \A below \in Descendants(node) : overlaps(node.line_segment, below)

\* C20: when a segment s is inserted into a node it overlaps, a node at
\* least as long as s keeps its segment and s goes among its children; a
\* strictly longer s becomes the segment of the node and the former segment
\* goes among the children of the same node by the same procedure.  Two
\* overlapping segments of different length therefore give, in either order,
\* one root with the longer segment and the shorter as its only child.
C20_LongerSegmentHeadsNode ==
    [][lines' # lines =>
          LET s == lines'[Len(lines')]
              i == find(root_nodes, s)
          IN  /\ i # 0 =>
                    LET node == root_nodes[i]
                        after == root_nodes'[i]
                    IN  IF get_length(node.line_segment) >= get_length(s)
                        THEN /\ after.line_segment = node.line_segment
                             /\ after.children = insert_segment(node.children, s, search_impl)
                        ELSE /\ after.line_segment = s
                             /\ after.children =
                                    insert_segment(node.children, node.line_segment, search_impl)
              /\ (/\ Len(lines') = 2
                  /\ overlaps(lines'[1], lines'[2])
                  /\ get_length(lines'[1]) # get_length(lines'[2])) =>
                    LET longer == IF get_length(lines'[1]) > get_length(lines'[2])
                                  THEN lines'[1] ELSE lines'[2]
                        shorter == IF get_length(lines'[1]) > get_length(lines'[2])
                                   THEN lines'[2] ELSE lines'[1]
                    IN  root_nodes' = <<[line_segment |-> longer,
                                         children |-> <<Leaf(shorter)>>]>>]_vars

\* The shorter segment came first and was displaced by the longer one.
C20_Witness ==
    /\ lines = <<Column0(0, 1, 0), Column0(0, 3, 1)>>
    /\ root_nodes = <<[line_segment |-> Column0(0, 3, 1),
                       children |-> <<Leaf(Column0(0, 1, 0))>>]>>

\* All lines so far have the end points of the first, which is horizontal or
\* vertical and of positive length.
SameSegmentEveryTime ==
    /\ Len(lines) >= 1
    /\ ~Malformed(lines[1])
    /\ \A i \in 1..Len(lines) :
           lines[i].start = lines[1].start /\ lines[i].end = lines[1].end

\* The chain of the segments segs[i], segs[i+1], ..., each the only child of
\* the one before.
RECURSIVE ChainFrom(_, _)
ChainFrom(segs, i) ==
    [line_segment |-> segs[i],
     children |-> IF i = Len(segs) THEN <<>> ELSE <<ChainFrom(segs, i + 1)>>]

\* C21 as stated: the same segment inserted n times gives one root holding
\* the first copy, with n-1 childless children of equal length.
C21_Original_DuplicatesAreSiblings ==
    SameSegmentEveryTime =>
        /\ Len(root_nodes) = 1
        /\ root_nodes[1].line_segment = lines[1]
        /\ Len(root_nodes[1].children) = Len(lines) - 1
        /\ \A i \in 1..Len(root_nodes[1].children) :
               /\ root_nodes[1].children[i].children = <<>>
               /\ get_length(root_nodes[1].children[i].line_segment)
                      = get_length(lines[1])

\* C21: the same segment inserted n times gives one root holding the first
\* copy and no promotion; the copies form a chain in insertion order, each
\* node having the next copy as its only child.
C21_DuplicatesFormChain ==
    SameSegmentEveryTime => root_nodes = <<ChainFrom(lines, 1)>>

C21_Witness ==
    /\ lines = <<Column0(1, 3, 0), Column0(1, 3, 1), Column0(1, 3, 2)>>
    /\ root_nodes = <<[line_segment |-> Column0(1, 3, 0),
                       children |-> <<[line_segment |-> Column0(1, 3, 1),
                                       children |-> <<Leaf(Column0(1, 3, 2))>>]>>]>>

\* The lines so far grow strictly in length and overlap one another.
IncreasingOverlapping ==
    /\ Len(lines) >= 1
    /\ \A i \in 1..Len(lines) : \A j \in 1..Len(lines) :
           i < j => /\ get_length(lines[i]) < get_length(lines[j])
                    /\ overlaps(lines[i], lines[j])

\* The sequence backwards.
Reverse(seq) == [i \in 1..Len(seq) |-> seq[Len(seq) + 1 - i]]

\* C22: segments of strictly increasing length that overlap one another give
\* a single root that is a chain: the root holds the latest, longest segment,
\* every node has at most one child, and from root to leaf the segments are
\* in reverse insertion order, strictly decreasing in length.
C22_IncreasingFormChain ==
    IncreasingOverlapping => root_nodes = <<ChainFrom(Reverse(lines), 1)>>

C22_Witness ==
    /\ lines = <<Column0(1, 2, 0), Column0(0, 2, 1), Column0(1, 4, 2)>>
    /\ root_nodes = <<[line_segment |-> Column0(1, 4, 2),
                       children |-> <<[line_segment |-> Column0(0, 2, 1),
                                       children |-> <<Leaf(Column0(1, 2, 0))>>]>>]>>

----------------------------------------------------------------------------
(* LineSegmentTree::depth_iter, the traversal draw_inter_stitch_movement   *)
(* walks; its code is not part of the sources at hand and is taken from    *)
(* the specification of depth_first_with_depth.                            *)

\* Variant of depth_iter_nodes: children are numbered like their parent.
RECURSIVE depth_iter_nodes_same_depth(_, _, _)
depth_iter_nodes_same_depth(nodes, i, depth) ==
    IF i > Len(nodes) THEN <<>>
    ELSE <<<<nodes[i].line_segment, depth>>>>
             \o depth_iter_nodes_same_depth(nodes[i].children, 1, depth)
             \o depth_iter_nodes_same_depth(nodes, i + 1, depth)

\* Variant of depth_iter over depth_iter_nodes_same_depth.
depth_iter_same_depth(roots) == depth_iter_nodes_same_depth(roots, 1, 0)

\* The pairs (segment, depth) of the nodes i, i+1, ... of a list and of all
\* that is below them: a node, then its children one deeper, then the next.
RECURSIVE depth_iter_nodes(_, _, _)
depth_iter_nodes(nodes, i, depth) ==
    IF i > Len(nodes) THEN <<>>
    ELSE <<<<nodes[i].line_segment, depth>>>>
             \o depth_iter_nodes(nodes[i].children, 1, depth + 1)
             \o depth_iter_nodes(nodes, i + 1, depth)

\* The whole sequence the traversal yields.
depth_iter(roots) == depth_iter_nodes(roots, 1, 0)

\* The places of the nodes of the given trees: <<i>> is the i-th of the
\* list, <<i, j>> the j-th child of that one, and so on.
RECURSIVE PathsOf(_)
PathsOf(nodes) ==
    UNION {{<<i>>} \cup {<<i>> \o q : q \in PathsOf(nodes[i].children)} :
               i \in 1..Len(nodes)}

RECURSIVE NodeAt(_, _)
NodeAt(nodes, path) ==
    IF Len(path) = 1 THEN nodes[path[1]]
    ELSE NodeAt(nodes[path[1]].children, Tail(path))

\* p comes before q when p is above q, or when p branches off to an earlier
\* root or sibling than q does.
ComesBefore(p, q) ==
    /\ p # q
    /\ \/ /\ Len(p) < Len(q)
          /\ \A k \in 1..Len(p) : p[k] = q[k]
       \/ \E k \in 1..min(Len(p), Len(q)) :
              /\ p[k] < q[k]
              /\ \A j \in 1..(k - 1) : p[j] = q[j]

\* C23: the depth-first traversal is a finite sequence of (segment, depth)
\* pairs with one entry for every stored node; a root has depth 0 and a child
\* the depth of its parent plus 1; a parent comes before everything below
\* it, roots come in the order of the root list and siblings in the order of
\* the children list.
C23_DepthFirstEveryNodeOnce ==
    LET t == depth_iter(root_nodes)
        paths == PathsOf(root_nodes)
    IN  /\ Len(t) = Cardinality(paths)
        /\ \A p \in paths :
               t[1 + Cardinality({q \in paths : ComesBefore(q, p)})]
                   = <<NodeAt(root_nodes, p).line_segment, Len(p) - 1>>

\* Two roots, the first with a child.
C23_Witness ==
    /\ lines = <<Column0(0, 2, 0), Column0(0, 1, 1), Column0(3, 4, 2)>>
    /\ depth_iter(root_nodes) = <<<<Column0(0, 2, 0), 0>>,
                                  <<Column0(0, 1, 1), 1>>,
                                  <<Column0(3, 4, 2), 0>>>>

\* The place above the place p.
ParentPath(p) == SubSeq(p, 1, Len(p) - 1)

\* The node at place p got a new segment and its former one went below it.
Promoted(before, after, p) ==
    /\ p \in PathsOf(before) \cap PathsOf(after)
    /\ NodeAt(after, p).line_segment # NodeAt(before, p).line_segment
    /\ NodeAt(before, p).line_segment \in Descendants(NodeAt(after, p))

\* C24: one insertion at tree level changes at most one root: either a new
\* root is appended and every root there was stays as it is, or only the
\* first overlapping root changes, the number and order of the roots and all
\* other roots staying as they are.  A promotion inside a node leaves the
\* siblings of the node as they are, and nothing from the node or below it
\* moves into its parent.
C24_InsertChangesOneRoot ==
    [][lines' # lines =>
          LET s == lines'[Len(lines')]
              changed == {i \in 1..Len(root_nodes) :
                              i > Len(root_nodes') \/ root_nodes'[i] # root_nodes[i]}
          IN  /\ \/ /\ root_nodes' = Append(root_nodes, Leaf(s))
                    /\ changed = {}
                 \/ /\ Len(root_nodes') = Len(root_nodes)
                    /\ changed = {find(root_nodes, s)}
              /\ \A p \in PathsOf(root_nodes) :
                     (Len(p) > 1 /\ Promoted(root_nodes, root_nodes', p)) =>
                         LET parent == NodeAt(root_nodes, ParentPath(p))
                             parent_after == NodeAt(root_nodes', ParentPath(p))
                             node == NodeAt(root_nodes, p)
                         IN  /\ Len(parent_after.children) = Len(parent.children)
                             /\ \A k \in 1..Len(parent.children) :
                                    k # p[Len(p)] =>
                                        parent_after.children[k] = parent.children[k]
                             /\ parent_after.line_segment
                                    \notin {node.line_segment} \cup Descendants(node)]_vars

\* [0,2] displaced [0,1] inside the root holding [0,3].
C24_Witness ==
    /\ lines = <<Column0(0, 3, 0), Column0(0, 1, 1), Column0(0, 2, 2)>>
    /\ root_nodes = <<[line_segment |-> Column0(0, 3, 0),
                       children |-> <<[line_segment |-> Column0(0, 2, 2),
                                       children |-> <<Leaf(Column0(0, 1, 1))>>]>>]>>

(***************************************************************************)
(* svg_output/svg_construction.rs: re_centre_stitches                      *)
(***************************************************************************)

\* Stitches given to re_centre_stitches start at coordinates -1 .. MaxCentreCoord.
MaxCentreCoord == 0
\* Length of the list given to re_centre_stitches.
MaxCentreLen == 2

\* iter().reduce(isize::min) from position i on, acc being the least so far.
RECURSIVE reduce_min(_, _, _)
reduce_min(values, i, acc) ==
    IF i > Len(values) THEN acc
    ELSE reduce_min(values, i + 1, min(acc, values[i]))

\* Variant of re_centre_stitches: both coordinates are moved by leftmost_x.
re_centre_stitches_by_x(given) ==
    IF Len(given) = 0 THEN Panicked
    ELSE LET xs == [i \in 1..Len(given) |-> given[i].start.x]
             leftmost_x == reduce_min(xs, 2, xs[1])
         IN  Returned([i \in 1..Len(given) |->
                           [given[i] EXCEPT !.start =
                                GridCell(given[i].start.x - leftmost_x,
                                         given[i].start.y - leftmost_x)]])

\* re_centre_stitches: reduce(..).unwrap() panics on an empty list.
re_centre_stitches(given) ==
    IF Len(given) = 0 THEN Panicked
    ELSE LET xs == [i \in 1..Len(given) |-> given[i].start.x]
             ys == [i \in 1..Len(given) |-> given[i].start.y]
             leftmost_x == reduce_min(xs, 2, xs[1])
             bottom_y == reduce_min(ys, 2, ys[1])
         IN  Returned([i \in 1..Len(given) |->
                           [given[i] EXCEPT !.start =
                                GridCell(given[i].start.x - leftmost_x,
                                         given[i].start.y - bottom_y)]])

\* Every half-stitch on the grid of SpecCentre.
CentreStitches ==
    {HalfStitch(GridCell(x, y), c) :
         x \in (0 - 1)..MaxCentreCoord, y \in (0 - 1)..MaxCentreCoord,
         c \in StartingStitchCorner}

InitCentre ==
    /\ centre_input \in SeqsUpTo(CentreStitches, MaxCentreLen)
    /\ centred = NotCalled
    /\ StitchIdle
    /\ SumIdle
    /\ DistIdle
    /\ SegIdle
    /\ TreeIdle

\* create_graphic's call re_centre_stitches(stitches).
ReCentreStitches ==
    /\ centred = NotCalled
    /\ centred' = re_centre_stitches(centre_input)
    /\ UNCHANGED centre_input
    /\ UNCHANGED <<stitchVars, sumVars, distVars, segVars, treeVars>>

NextCentre == ReCentreStitches

SpecCentre == InitCentre /\ [][NextCentre]_vars

----------------------------------------------------------------------------
(* Claims about re_centre_stitches                                         *)

\* The least of a non-empty set of integers.
Least(S) == CHOOSE m \in S : \A o \in S : m <= o

StartXs(list) == {list[i].start.x : i \in 1..Len(list)}
StartYs(list) == {list[i].start.y : i \in 1..Len(list)}

\* C25: on a non-empty list re_centre_stitches moves every start by the same
\* vector (-min start.x, -min start.y), so the least start.x and the least
\* start.y of the result are 0; the length, the order and every corner stay,
\* and doing it again changes nothing.
C25_ReCentreTranslatesStarts ==
    (centred.tag # "NotCalled" /\ Len(centre_input) > 0) =>
        /\ centred.tag = "Returned"
        /\ Len(centred.value) = Len(centre_input)
        /\ \A i \in 1..Len(centre_input) :
               /\ centred.value[i].stitch_corner = centre_input[i].stitch_corner
               /\ centred.value[i].start.x
                      = centre_input[i].start.x - Least(StartXs(centre_input))
               /\ centred.value[i].start.y
                      = centre_input[i].start.y - Least(StartYs(centre_input))
        /\ Least(StartXs(centred.value)) = 0
        /\ Least(StartYs(centred.value)) = 0
        /\ re_centre_stitches(centred.value) = centred

\* The least x and the least y are on different stitches.
C25_Witness ==
    /\ centre_input = <<HalfStitch(GridCell(0, 0 - 1), TopLeft),
                        HalfStitch(GridCell(0 - 1, 0), BottomRight)>>
    /\ centred = Returned(<<HalfStitch(GridCell(1, 0), TopLeft),
                            HalfStitch(GridCell(0, 1), BottomRight)>>)

\* C26: after re_centre_stitches every stitch has its start and its end
\* location at x >= 0 and y >= 0, whatever its corner.
C26_PictureAtOrigin ==
    centred.tag = "Returned" =>
        \A i \in 1..Len(centred.value) :
            /\ centred.value[i].start.x >= 0
            /\ centred.value[i].start.y >= 0
            /\ get_end_location(centred.value[i]).x >= 0
            /\ get_end_location(centred.value[i]).y >= 0

----------------------------------------------------------------------------
(* Further claims about the tree                                           *)

\* The segments of the nodes i, i+1, ... of a list and of all below them,
\* one entry for every node.
RECURSIVE SegmentsFrom(_, _)
SegmentsFrom(nodes, i) ==
    IF i > Len(nodes) THEN <<>>
    ELSE <<nodes[i].line_segment>> \o SegmentsFrom(nodes[i].children, 1)
             \o SegmentsFrom(nodes, i + 1)

\* How often x occurs in a sequence.
Occurrences(seq, x) == Cardinality({i \in 1..Len(seq) : seq[i] = x})

\* C27: the segments held by the nodes of the forest are, as a multiset, the
\* segments inserted so far: none is lost, held twice or altered, its order
\* index included.
C27_SegmentsConserved ==
    LET held == SegmentsFrom(root_nodes, 1)
    IN  /\ Len(held) = Len(lines)
        /\ \A i \in 1..Len(lines) :
               Occurrences(held, lines[i]) = Occurrences(lines, lines[i])

\* [0,4] displaced [0,2], which went below [1,3].
C27_Witness ==
    /\ lines = <<Column0(0, 2, 0), Column0(1, 3, 1), Column0(0, 4, 2)>>
    /\ root_nodes = <<[line_segment |-> Column0(0, 4, 2),
                       children |-> <<[line_segment |-> Column0(1, 3, 1),
                                       children |-> <<Leaf(Column0(0, 2, 0))>>]>>]>>

\* C28: the segment of every node is at least as long as every segment
\* below it, so a root holds a longest segment of its group.
C28_NodeLongestOfSubtree ==
    \A node \in NodesOf(root_nodes) :
        \A below \in Descendants(node) :
            get_length(node.line_segment) >= get_length(below)

\* A promotion at the root and one inside it.
C28_Witness ==
    /\ lines = <<Column0(1, 2, 0), Column0(0, 3, 1), Column0(1, 3, 2)>>
    /\ root_nodes = <<[line_segment |-> Column0(0, 3, 1),
                       children |-> <<[line_segment |-> Column0(1, 3, 2),
                                       children |-> <<Leaf(Column0(1, 2, 0))>>]>>]>>

\* C29: no two roots hold segments that overlap each other.
C29_RootsDoNotOverlap ==
    \A i \in 1..Len(root_nodes) : \A j \in 1..Len(root_nodes) :
        i # j => ~overlaps(root_nodes[i].line_segment, root_nodes[j].line_segment)

----------------------------------------------------------------------------
(* The travels of an accepted sequence                                     *)

\* The squared length of the travel from stitch i to stitch i + 1.
TravelSquared(seq, i) ==
    euclidean_distance_squared(get_end_location(seq[i]), seq[i + 1].start)

\* C30: in a sequence the validity check accepts, every travel from the end
\* of a stitch to the start of the next has squared distance >= 1; the
\* symbolic cost is therefore never built from a squared distance of 0, and
\* an accepted sequence of two or more stitches has a cost above zero.
C30_AcceptedTravelsArePositive ==
    (float_result.tag = "Ok" \/ symbolic_result.tag = "Ok") =>
        /\ \A i \in 1..(Len(stitches) - 1) : TravelSquared(stitches, i) >= 1
        /\ Len(stitches) >= 2 =>
               /\ _calculate_cost_float(stitches) > 0
               /\ LET cost == _calculate_cost_symbolic(stitches)
                  IN  /\ cost.constant >= 0
                      /\ \A k \in DOMAIN cost.square_root_terms :
                             cost.square_root_terms[k] > 0
                      /\ cost.constant > 0 \/ DOMAIN cost.square_root_terms # {}
               /\ float_result.tag = "Ok" => float_result.value # "0.0000"
               /\ symbolic_result.tag = "Ok" => symbolic_result.value # "0"

\* Three stitches accepted and costed in both modes.
C30_Witness ==
    /\ Len(stitches) = 3
    /\ float_result.tag = "Ok"
    /\ symbolic_result.tag = "Ok"

====
